---- MODULE Spec2Model ----
(***************************************************************************)
(* BookingCalendar (src/pages/external_page/_components/booking-calendar   *)
(* .tsx): the date / time-slot picker of the public booking flow.          *)
(*                                                                         *)
(* State: the availability query (data, status), the booking state read    *)
(* through useBookingState (selectedDate, selectedSlot, hourType,          *)
(* timezone) and the last render of the component (view).  lastOp          *)
(* is a history variable: the handler that ran last and what it was given. *)
(*                                                                         *)
(* Values.  A CalendarDate is a day number since 1970-01-01.  A slot       *)
(* "HH:mm" is its minute of the day.  An instant is a number of minutes    *)
(* since the epoch, UTC.  A zone is its offset from UTC in hours.  A       *)
(* formatted time is the record [hour, minute, period] of the text shown.  *)
(* An optional value is <<>> when absent and <<v>> when present.           *)
(***************************************************************************)
EXTENDS Integers, Sequences, FiniteSets

VARIABLES data, status, selectedDate, selectedSlot, hourType, timezone,
          lastOp, view

vars == <<data, status, selectedDate, selectedSlot, hourType, timezone,
          lastOp, view>>

(* ------------------------------ bounds --------------------------------- *)
MaxEntries == 2
NumDates == 3

(* ------------------------------ values --------------------------------- *)
Null == <<>>
Some(v) == <<v>>

DayNames == <<"SUNDAY", "MONDAY", "TUESDAY", "WEDNESDAY", "THURSDAY",
              "FRIDAY", "SATURDAY">>

\* candidate dates: 1970-01-05 (a Monday) and the days after it
Dates == 4..(3 + NumDates)
\* the slots of an entry, "09:00" being 540 and "21:00" 1260: none, one,
\* two out of order, the same slot twice
SlotLists == {<<>>, <<540>>, <<1260, 540>>, <<540, 540>>}
\* America/Mexico_City
Zones == {-6}
HourTypes == {"12h", "24h"}

SeqsUpTo(S, n) == UNION {[1..k -> S] : k \in 0..n}

DayAvailabilities(days) == [day : days, isAvailable : BOOLEAN, slots : SlotLists]
\* the weekly availabilities the query may resolve with
Schedules == SeqsUpTo(DayAvailabilities({"MONDAY"}), MaxEntries)
\* the weekly availabilities the filter and the predicate are applied to
WeekSchedules == SeqsUpTo(DayAvailabilities({"MONDAY", "TUESDAY"}), MaxEntries)

(* ------------------------ date and slot helpers ------------------------ *)
\* CalendarDate.toDate(timeZone): the instant of midnight of the date there
toDate(date, zone) == date * 1440 - zone * 60

\* format(instant, "EEEE").toUpperCase(): date-fns formats in the zone of the
\* runtime, which is the zone of the user the booking state holds (timezone)
formatEEEE(instant, zone) ==
    DayNames[((((instant + zone * 60) \div 1440) + 4) % 7) + 1]

\* the text of a time of day in the hour format
formatTime(t, hType) ==
    LET h == t \div 60
        m == t % 60
    IN  IF hType = "12h"
        THEN [hour |-> IF h % 12 = 0 THEN 12 ELSE h % 12, minute |-> m,
              period |-> IF h < 12 THEN "AM" ELSE "PM"]
        ELSE [hour |-> h, minute |-> m, period |-> ""]

formatSlot(slot, zone, hType) == formatTime(slot, hType)

\* the stored identifier of a slot: the instant the slot starts on the date
encodeSlot(date, slot, zone) == toDate(date, zone) + slot

decodeSlot(slotId, zone, hType) ==
    IF slotId = Null THEN Null
    ELSE Some(formatTime((slotId[1] + zone * 60) % 1440, hType))

(* ----------------------------- the component --------------------------- *)
\* const availability = data?.data || []
availability(d) == IF d = Null THEN <<>> ELSE d[1]

\* Array.prototype.find: the first element that matches, or undefined
\* the search as it would be if it kept the last element that matches
find_Last(sched, dayName) ==
    LET hits == {i \in DOMAIN sched : sched[i].day = dayName}
    IN  IF hits = {} THEN Null
        ELSE Some(sched[CHOOSE i \in hits : \A j \in hits : i >= j])

find(sched, dayName) ==
    LET hits == {i \in DOMAIN sched : sched[i].day = dayName}
    IN  IF hits = {} THEN Null
        ELSE Some(sched[CHOOSE i \in hits : \A j \in hits : i <= j])

dayOfWeek(date, zone) == formatEEEE(toDate(date, zone), zone)

SortSeq(s) ==
    CHOOSE t \in [DOMAIN s -> {s[i] : i \in DOMAIN s}] :
        /\ \A i, j \in DOMAIN s : i < j => t[i] <= t[j]
        /\ \A v \in {s[i] : i \in DOMAIN s} :
              Cardinality({i \in DOMAIN s : t[i] = v})
                  = Cardinality({i \in DOMAIN s : s[i] = v})

\* the filter as it would be if it sorted the slots it returns
timeSlots_Sorted(selDate, sched, zone) ==
    IF selDate = Null THEN <<>>
    ELSE LET dayAvailability == find(sched, dayOfWeek(selDate[1], zone))
         IN  IF dayAvailability = Null THEN <<>>
             ELSE SortSeq(dayAvailability[1].slots)

timeSlots(selDate, sched, zone) ==
    IF selDate = Null THEN <<>>
    ELSE LET dayAvailability == find(sched, dayOfWeek(selDate[1], zone))
         IN  IF dayAvailability = Null THEN <<>> ELSE dayAvailability[1].slots

\* the predicate as it would be if a weekday without an entry were selectable
isDateUnavailable_MissingOk(date, sched, zone) ==
    LET dayAvailability == find(sched, dayOfWeek(date, zone))
    IN  dayAvailability # Null /\ ~dayAvailability[1].isAvailable

isDateUnavailable(date, sched, zone) ==
    LET dayAvailability == find(sched, dayOfWeek(date, zone))
    IN  ~(dayAvailability # Null /\ dayAvailability[1].isAvailable)

selectedTime(slotId, zone, hType) == decodeSlot(slotId, zone, hType)

\* the Next overlay of a row is shown when selectedTime === formattedSlot
\* the overlay as it would be with the two class branches swapped
rowSelected_Swapped(selTime, formattedSlot) == selTime # Some(formattedSlot)

rowSelected(selTime, formattedSlot) == selTime = Some(formattedSlot)

\* one row per element of timeSlots, keyed by its index
slotRows(slots, selTime, zone, hType) ==
    [i \in DOMAIN slots |->
        [slot |-> slots[i],
         formattedSlot |-> formatSlot(slots[i], zone, hType),
         selected |-> rowSelected(selTime, formatSlot(slots[i], zone, hType))]]

\* {selectedDate && availability ? <panel> : null}
slotPanel(selDate, sched, slotId, zone, hType) ==
    IF selDate # Null
    THEN Some(slotRows(timeSlots(selDate, sched, zone),
                       selectedTime(slotId, zone, hType), zone, hType))
    ELSE Null

\* <ErrorAlert isError={isError} error={error} />
\* the alert as it would be if the query's error flag were not passed on
errorAlert_NoFlag(st) == [isError |-> FALSE]

errorAlert(st) == [isError |-> st = "error"]

\* what the component returns
Render ==
    [loader |-> status = "pending",
     unavailable |-> {d \in Dates : isDateUnavailable(d, availability(data), timezone)},
     timeSlots |-> timeSlots(selectedDate, availability(data), timezone),
     panel |-> slotPanel(selectedDate, availability(data), selectedSlot,
                         timezone, hourType),
     errorAlert |-> errorAlert(status)]

(* --------------------------- booking state ----------------------------- *)
handleSelectSlot(slot) ==
    selectedSlot' = IF slot = Null \/ selectedDate = Null THEN Null
                    ELSE Some(encodeSlot(selectedDate[1], slot[1], timezone))

handleSelectDate(date) == selectedDate' = Some(date)

(* ------------------------------ actions -------------------------------- *)
Init ==
    /\ data = Null
    /\ status = "pending"
    /\ selectedDate = Null
    /\ selectedSlot = Null
    /\ hourType \in HourTypes
    /\ timezone \in Zones
    /\ lastOp = [op |-> "mount"]
    /\ view = Render

\* the query resolves with the weekly availability
FetchSuccess(sched) ==
    /\ status = "pending"
    /\ status' = "success"
    /\ data' = Some(sched)
    /\ lastOp' = [op |-> "fetchSuccess"]
    /\ UNCHANGED <<selectedDate, selectedSlot, hourType, timezone>>
    /\ view' = Render'

\* the query fails
FetchError ==
    /\ status = "pending"
    /\ status' = "error"
    /\ lastOp' = [op |-> "fetchError"]
    /\ UNCHANGED <<data, selectedDate, selectedSlot, hourType, timezone>>
    /\ view' = Render'

\* the handler as it would be if it cleared the slot only for another date
handleChangeDate_OnlyOtherDate(newDate) ==
    /\ IF selectedDate = Some(newDate) THEN UNCHANGED selectedSlot
       ELSE handleSelectSlot(Null)
    /\ handleSelectDate(newDate)
    /\ lastOp' = [op |-> "handleChangeDate", newDate |-> newDate,
                  hadSlot |-> selectedSlot # Null,
                  sameDate |-> selectedDate = Some(newDate)]
    /\ UNCHANGED <<data, status, hourType, timezone>>
    /\ view' = Render'

\* the handler as it would be without the call that clears the slot
handleChangeDate_KeepSlot(newDate) ==
    /\ handleSelectDate(newDate)
    /\ lastOp' = [op |-> "handleChangeDate", newDate |-> newDate,
                  hadSlot |-> selectedSlot # Null,
                  sameDate |-> selectedDate = Some(newDate)]
    /\ UNCHANGED <<data, status, selectedSlot, hourType, timezone>>
    /\ view' = Render'

\* Calendar onChange
handleChangeDate(newDate) ==
    /\ handleSelectSlot(Null)
    /\ handleSelectDate(newDate)
    /\ lastOp' = [op |-> "handleChangeDate", newDate |-> newDate,
                  hadSlot |-> selectedSlot # Null,
                  sameDate |-> selectedDate = Some(newDate)]
    /\ UNCHANGED <<data, status, hourType, timezone>>
    /\ view' = Render'

\* the click as it would be if a click on the selected row took the slot back
ClickSlot_Toggle(i) ==
    /\ view.panel # Null
    /\ i \in DOMAIN view.panel[1]
    /\ IF view.panel[1][i].selected THEN handleSelectSlot(Null)
       ELSE handleSelectSlot(Some(view.panel[1][i].slot))
    /\ lastOp' = [op |-> "handleSelectSlot", row |-> i]
    /\ UNCHANGED <<data, status, selectedDate, hourType, timezone>>
    /\ view' = Render'

\* click on the slot button of row i of the rendered panel
ClickSlot(i) ==
    /\ view.panel # Null
    /\ i \in DOMAIN view.panel[1]
    /\ handleSelectSlot(Some(view.panel[1][i].slot))
    /\ lastOp' = [op |-> "handleSelectSlot", row |-> i]
    /\ UNCHANGED <<data, status, selectedDate, hourType, timezone>>
    /\ view' = Render'

\* click on an HourButton of the rendered panel
SetHourType(hType) ==
    /\ view.panel # Null
    /\ hourType' = hType
    /\ lastOp' = [op |-> "setHourType"]
    /\ UNCHANGED <<data, status, selectedDate, selectedSlot, timezone>>
    /\ view' = Render'

\* the rows of the rendered panel whose Next overlay is shown
SelectedRows(v) ==
    IF v.panel = Null THEN {}
    ELSE {i \in DOMAIN v.panel[1] : v.panel[1][i].selected}

\* click on the Next button of a row whose overlay is shown
ClickNext ==
    /\ SelectedRows(view) # {}
    /\ lastOp' = [op |-> "handleNext"]
    /\ UNCHANGED <<data, status, selectedDate, selectedSlot, hourType, timezone>>
    /\ view' = Render'

Next ==
    \/ \E sched \in Schedules : FetchSuccess(sched)
    \/ FetchError
    \/ \E d \in Dates : handleChangeDate(d)
    \/ \E i \in DOMAIN view.timeSlots : ClickSlot(i)
    \/ \E h \in HourTypes : SetHourType(h)
    \/ ClickNext

Spec == Init /\ [][Next]_vars

\* the component mounted with the date the booking state kept from before
InitFn ==
    /\ data = Null
    /\ status = "pending"
    /\ selectedDate \in {Null} \cup {Some(d) : d \in Dates}
    /\ selectedSlot = Null
    /\ hourType \in HourTypes
    /\ timezone \in Zones
    /\ lastOp = [op |-> "mount"]
    /\ view = Render

NextFn == \E sched \in WeekSchedules : FetchSuccess(sched)

SpecFn == InitFn /\ [][NextFn]_vars

(* ------------------------------ properties ----------------------------- *)
\* the weekday of a calendar date (1970-01-01 was a Thursday)
WeekdayOf(date) == DayNames[((date + 4) % 7) + 1]

EntriesFor(sched, date) == {i \in DOMAIN sched : sched[i].day = WeekdayOf(date)}

\* the entry a linear search meets first for the weekday of the date
IsFirstEntryFor(sched, date, i) ==
    /\ i \in EntriesFor(sched, date)
    /\ \A j \in EntriesFor(sched, date) : i <= j

PanelRows == IF view.panel = Null THEN <<>> ELSE view.panel[1]

\* C1: after every date selection, whatever the state before it and
\* whatever the date (the date already selected included), no slot is
\* selected and the selected date is the date that was chosen.
C1_DateSelectionClearsSlot ==
    lastOp.op = "handleChangeDate" =>
        /\ selectedSlot = Null
        /\ selectedDate = Some(lastOp.newDate)

\* C1 witness: the date that was already selected was selected again while
\* a slot was selected.
C1_Witness ==
    /\ lastOp.op = "handleChangeDate"
    /\ lastOp.hadSlot
    /\ lastOp.sameDate
    /\ selectedSlot = Null

\* C2 as stated: a date is disabled whenever the schedule has no entry for
\* its weekday or has some entry for its weekday that is not available.
C2_DisabledIfAnyEntryUnavailable ==
    status = "success" =>
        \A d \in Dates :
            ((\/ EntriesFor(data[1], d) = {}
              \/ \E i \in EntriesFor(data[1], d) : ~data[1][i].isAvailable)
                 => d \in view.unavailable)

\* C2 amended: a date is disabled whenever the schedule has no entry for its
\* weekday or the first entry for its weekday is not available.
C2_DisabledIfFirstEntryUnavailable ==
    status = "success" =>
        \A d \in Dates :
            ((\/ EntriesFor(data[1], d) = {}
              \/ \E i \in DOMAIN data[1] :
                     IsFirstEntryFor(data[1], d, i) /\ ~data[1][i].isAvailable)
                 => d \in view.unavailable)

\* C2 witness: two entries for one weekday, the first not available and the
\* second available, and the dates of that weekday are disabled; a date
\* whose weekday has no entry is disabled too.
C2_Witness ==
    /\ status = "success"
    /\ \E d \in Dates : \E i, j \in EntriesFor(data[1], d) :
          /\ IsFirstEntryFor(data[1], d, i)
          /\ ~data[1][i].isAvailable
          /\ data[1][j].isAvailable
          /\ d \in view.unavailable
    /\ \E d \in Dates : EntriesFor(data[1], d) = {} /\ d \in view.unavailable

\* C3: when the entry for the weekday of the selected date (the first one a
\* linear search meets) is available, the slot filter returns the slots of
\* that entry as they are: same elements, same order, same length.
C3_SlotsVerbatim ==
    (status = "success" /\ selectedDate # Null) =>
        \A i \in DOMAIN data[1] :
            ((IsFirstEntryFor(data[1], selectedDate[1], i) /\ data[1][i].isAvailable)
                 => view.timeSlots = data[1][i].slots)

\* C3 witness: the available entry of the selected date lists its slots out
\* of order, or the same slot twice, and the filter returned them so.
C3_Witness ==
    /\ status = "success"
    /\ selectedDate # Null
    /\ \E i \in DOMAIN data[1] :
          /\ IsFirstEntryFor(data[1], selectedDate[1], i)
          /\ data[1][i].isAvailable
          /\ Len(data[1][i].slots) = 2
          /\ data[1][i].slots[1] >= data[1][i].slots[2]
          /\ view.timeSlots = data[1][i].slots

\* C4 as stated: the slot filter returns the empty sequence whenever no date
\* is selected, or the schedule has no entry for the weekday of the selected
\* date, or the entry for that weekday is not available.
C4_EmptyUnlessAvailable ==
    status = "success" =>
        ((\/ selectedDate = Null
          \/ EntriesFor(data[1], selectedDate[1]) = {}
          \/ \E i \in DOMAIN data[1] :
                 IsFirstEntryFor(data[1], selectedDate[1], i) /\ ~data[1][i].isAvailable)
            => view.timeSlots = <<>>)

\* C5: while the schedule is empty or the query has not resolved, the slot
\* panel has no slot button, whatever date is selected, and every candidate
\* date is disabled.
C5_EmptyScheduleShowsNothing ==
    (status = "pending" \/ availability(data) = <<>>) =>
        /\ PanelRows = <<>>
        /\ view.timeSlots = <<>>
        /\ view.unavailable = Dates

\* C5 witness: a date is selected while the query has not resolved.
C5_Witness ==
    /\ status = "pending"
    /\ selectedDate # Null
    /\ view.panel = Some(<<>>)
    /\ view.unavailable = Dates

C7_SlotBelongsToDate ==
    selectedSlot # Null =>
        /\ selectedDate # Null
        /\ \E i \in DOMAIN view.timeSlots :
              selectedSlot = Some(encodeSlot(selectedDate[1], view.timeSlots[i], timezone))

\* C7 witness: a slot is selected and the hour format was changed after it.
C7_Witness ==
    /\ selectedSlot # Null
    /\ lastOp.op = "setHourType"
    /\ hourType = "12h"

\* C8: a selected date never becomes absent again, a selected slot becomes
\* absent only by a date selection, and a slot click leaves a slot selected.
C8_NoWayBack ==
    /\ [][selectedDate # Null => selectedDate' # Null]_vars
    /\ [][(selectedSlot # Null /\ selectedSlot' = Null)
            => lastOp'.op = "handleChangeDate"]_vars
    /\ [](lastOp.op = "handleSelectSlot" => selectedSlot # Null)

\* C8 witness: a slot click on the row that was already selected.
C8_Witness ==
    /\ lastOp.op = "handleSelectSlot"
    /\ selectedSlot # Null
    /\ Cardinality(SelectedRows(view)) = 1
    /\ Len(PanelRows) = 2

\* C9: no row shows the Next action while no date or no slot is selected,
\* and after a slot click the clicked row shows it.
C9_NextOnlyWithDateAndSlot ==
    /\ ((selectedDate = Null \/ selectedSlot = Null) => SelectedRows(view) = {})
    /\ (lastOp.op = "handleSelectSlot" => lastOp.row \in SelectedRows(view))

\* C9 witness: the second row was clicked and shows the Next action.
C9_Witness ==
    /\ lastOp.op = "handleSelectSlot"
    /\ lastOp.row = 2
    /\ 2 \in SelectedRows(view)

\* C10 as stated: at most one row shows the Next action, and after a slot
\* click it is the clicked row.
C10_OneSelectedRow ==
    /\ Cardinality(SelectedRows(view)) <= 1
    /\ (lastOp.op = "handleSelectSlot" => SelectedRows(view) = {lastOp.row})

====
